---- MODULE Spec2Model ----
(***************************************************************************)
(* dynamodb-graph-model: the Document Update function (src/src/update.js)  *)
(* and the Model handle operations exercised by src/__test__/index.test.js *)
(***************************************************************************)
EXTENDS Naturals, Integers, Sequences, FiniteSets, TLC

(* ---------------------------------------------------------------------- *)
(* Values                                                                  *)
(* ---------------------------------------------------------------------- *)

\* JavaScript's undefined.
undefined == "undefined"

\* maxGSIK is a number; an undefined maxGSIK is kept apart from the numbers.
undefinedNumber == -1

\* Most recognised field names (properties plus edges) of a configuration.
MaxFields == 2

\* Field names a configuration may recognise as properties or as edges.
FieldNames == {"Genre", "Author"}

\* Keys a document may carry: the node id, the node data key, the fields.
DocKeys == {"id", "Name"} \cup FieldNames

\* The value a document holds under each key, when it has the key.
DocValue(k) ==
  CASE k = "id" -> "node1"
    [] k = "Name" -> "Elantris"
    [] k = "Genre" -> "Fantasy"
    [] k = "Author" -> "node2"

\* `@${edge.type}`
AtKey(type) ==
  CASE type = "Genre" -> "@Genre"
    [] type = "Author" -> "@Author"

\* Data a createEdge response may carry in response.Item.Data.
TargetData == {"Brandon Sanderson", "B. Sanderson"}

\* Lists of at most n elements of S.
ListsUpTo(S, n) == UNION {[1..k -> S] : k \in 0..n}

\* Plain objects are functions from their own keys; a missing key reads as
\* undefined.
Get(obj, k) == IF k \in DOMAIN obj THEN obj[k] ELSE undefined

EmptyObject == [k \in {} |-> undefined]

\* All documents: any subset of the keys, each holding its value.
Documents == {[k \in D |-> DocValue(k)] : D \in SUBSET DocKeys}

\* All option objects handed to create(options); a missing `properties` or
\* `edges` defaults to the empty list.
AllOptions ==
  {o \in [db : {undefined, "db"},
          tenant : {undefined, "tenant1"},
          type : {undefined, "Book"},
          key : {undefined, "id", "Name"},
          maxGSIK : {undefinedNumber, 4},
          properties : ListsUpTo(FieldNames, MaxFields),
          edges : ListsUpTo(FieldNames, MaxFields)] :
     Len(o.properties) + Len(o.edges) <= MaxFields}

NoOptions ==
  [db |-> undefined, tenant |-> undefined, type |-> undefined,
   key |-> undefined, maxGSIK |-> undefinedNumber,
   properties |-> <<>>, edges |-> <<>>]

(* ---------------------------------------------------------------------- *)
(* State                                                                   *)
(* ---------------------------------------------------------------------- *)

VARIABLES
  pc,         \* where the Document Update is
  options,    \* the options create() was given
  thrown,     \* message of the error thrown synchronously, or undefined
  doc,        \* the document the update function was called with
  node,       \* var node of the update function
  propMap,    \* var propMap
  edgeMap,    \* var edgeMap (edge.data is filled in by the write's response)
  calls,      \* every db.createProperty / db.createEdge call, in call order
  status,     \* per call: "pending", "fulfilled" or "rejected"
  responses,  \* per call: the Data its response carried, once fulfilled
  promise,    \* state of the promise the update function returned
  result,     \* value the returned promise fulfilled with
  reason      \* error the returned promise rejected with

updateVars ==
  <<pc, options, thrown, doc, node, propMap, edgeMap, calls, status,
    responses, promise, result, reason>>

(* ---------------------------------------------------------------------- *)
(* The Model handle: state                                                 *)
(* ---------------------------------------------------------------------- *)

VARIABLES
  handle,     \* the Model object: tenant, node, type, maxGSIK, data, properties, edges
  opName,     \* operation in progress or last finished
  opc,        \* its position: which request it is waiting for
  args,       \* its arguments and the node it writes to
  issued,     \* every request handed to the document client, in issue order
  trace,      \* the issue and completion events of those requests, in order
  written,    \* items the store has written for this operation
  history,    \* the history the operation has recorded so far
  opResult,   \* "none", "threw", "fulfilled" or "rejected"
  opError,    \* message thrown or rejected with
  answers,    \* what the resolution queries of this operation returned
  started,    \* operations started so far
  setCalls    \* the handle before each set() and the node id it was given

modelVars ==
  <<handle, opName, opc, args, issued, trace, written, history, opResult,
    opError, answers, started, setCalls>>

vars == <<updateVars, modelVars>>

(* ---------------------------------------------------------------------- *)
(* Array helpers                                                           *)
(* ---------------------------------------------------------------------- *)

\* A filter that keeps every recognised name, present in the document or not.
FilterKeepsAll(list, d) == list

\* list.filter(name => doc[name] !== undefined)
RECURSIVE Filter(_, _)
Filter(list, d) ==
  IF list = <<>> THEN <<>>
  ELSE IF Get(d, Head(list)) # undefined
       THEN <<Head(list)>> \o Filter(Tail(list), d)
       ELSE Filter(Tail(list), d)

\* Object.assign({}, a, b)
ObjectAssign(a, b) ==
  [k \in DOMAIN a \cup DOMAIN b |-> IF k \in DOMAIN b THEN b[k] ELSE a[k]]

(* ---------------------------------------------------------------------- *)
(* create(options)                                                         *)
(* ---------------------------------------------------------------------- *)

\* The checks of create() without the one on `key`.
ConfigErrorNoKey(o) ==
  IF o.db = undefined THEN "DB driver is undefined"
  ELSE IF o.type = undefined THEN "Type is undefined"
  ELSE IF o.maxGSIK = undefinedNumber THEN "Max GSIK is undefined"
  ELSE undefined

ConfigError(o) ==
  IF o.db = undefined THEN "DB driver is undefined"
  ELSE IF o.type = undefined THEN "Type is undefined"
  ELSE IF o.key = undefined THEN "Key is undefined"
  ELSE IF o.maxGSIK = undefinedNumber THEN "Max GSIK is undefined"
  ELSE undefined

Configure(o) ==
  /\ pc = "unconfigured"
  /\ options' = o
  /\ thrown' = ConfigError(o)
  /\ pc' = IF ConfigError(o) = undefined THEN "configured" ELSE "configThrew"
  /\ UNCHANGED <<doc, node, propMap, edgeMap, calls, status, responses,
                 promise, result, reason>>
  /\ UNCHANGED modelVars

(* ---------------------------------------------------------------------- *)
(* doc => { ... }                                                          *)
(* ---------------------------------------------------------------------- *)

\* The node id read from the configured key instead of from `id`.
NodeOfKey(d, o) == Get(d, o.key)

\* var node = doc.id
NodeOf(d, o) == Get(d, "id")

PropMap(d, o) ==
  LET present == Filter(o.properties, d)
  IN  [i \in 1..Len(present) |-> [type |-> present[i], data |-> Get(d, present[i])]]

EdgeMap(d, o) ==
  LET present == Filter(o.edges, d)
  IN  [i \in 1..Len(present) |->
         [type |-> present[i], target |-> Get(d, present[i]), data |-> undefined]]

PropertyCall(o, n, p) ==
  [op |-> "createProperty", tenant |-> o.tenant, type |-> p.type, node |-> n,
   data |-> p.data, target |-> undefined, maxGSIK |-> o.maxGSIK]

\* An edge write addressed to the target node instead of the source node.
EdgeCallOnTarget(o, n, e) ==
  [op |-> "createEdge", tenant |-> o.tenant, type |-> e.type, node |-> e.target,
   data |-> undefined, target |-> e.target, maxGSIK |-> o.maxGSIK]

EdgeCall(o, n, e) ==
  [op |-> "createEdge", tenant |-> o.tenant, type |-> e.type, node |-> n,
   data |-> undefined, target |-> e.target, maxGSIK |-> o.maxGSIK]

\* The forEach loops: every property write, then every edge write.
IssuedCalls(d, o) ==
  LET n == NodeOf(d, o)
      pm == PropMap(d, o)
      em == EdgeMap(d, o)
  IN  [i \in 1..Len(pm) |-> PropertyCall(o, n, pm[i])]
      \o [i \in 1..Len(em) |-> EdgeCall(o, n, em[i])]

\* The synchronous part of one call of the update function.
Update(d) ==
  /\ pc = "configured"
  /\ doc' = d
  /\ node' = NodeOf(d, options)
  /\ IF NodeOf(d, options) = undefined
     THEN /\ thrown' = "Node is undefined"
          /\ pc' = "callThrew"
          /\ UNCHANGED <<propMap, edgeMap, calls, status, responses, promise>>
     ELSE /\ propMap' = PropMap(d, options)
          /\ edgeMap' = EdgeMap(d, options)
          /\ calls' = IssuedCalls(d, options)
          /\ status' = [i \in 1..Len(IssuedCalls(d, options)) |-> "pending"]
          /\ responses' = [i \in 1..Len(IssuedCalls(d, options)) |-> undefined]
          /\ promise' = "pending"
          /\ pc' = "awaiting"
          /\ UNCHANGED thrown
  /\ UNCHANGED <<options, result, reason>>
  /\ UNCHANGED modelVars

(* ---------------------------------------------------------------------- *)
(* Settling of the writes and of Promise.all                               *)
(* ---------------------------------------------------------------------- *)

\* Each rejection carries its own error object.
ErrorOf(i) == <<"StoreError", i>>
NoError == <<>>

\* db.createProperty(...) fulfils.
FulfilProperty(i) ==
  /\ pc = "awaiting"
  /\ i \in DOMAIN calls
  /\ calls[i].op = "createProperty"
  /\ status[i] = "pending"
  /\ status' = [status EXCEPT ![i] = "fulfilled"]
  /\ UNCHANGED <<pc, options, thrown, doc, node, propMap, edgeMap, calls,
                 responses, promise, result, reason>>
  /\ UNCHANGED modelVars

\* The response stored per edge type instead of per edge object.
CaptureDataByType(em, j, data) ==
  [k \in DOMAIN em |-> IF em[k].type = em[j].type
                         THEN [em[k] EXCEPT !.data = data] ELSE em[k]]

\* .then(response => (edge.data = response.Item.Data))
CaptureData(em, j, data) == [em EXCEPT ![j].data = data]

\* db.createEdge(...) fulfils with a response and its .then callback runs.
FulfilEdge(i, data) ==
  /\ pc = "awaiting"
  /\ i \in DOMAIN calls
  /\ calls[i].op = "createEdge"
  /\ status[i] = "pending"
  /\ status' = [status EXCEPT ![i] = "fulfilled"]
  /\ responses' = [responses EXCEPT ![i] = data]
  /\ edgeMap' = CaptureData(edgeMap, i - Len(propMap), data)
  /\ UNCHANGED <<pc, options, thrown, doc, node, propMap, calls, promise,
                 result, reason>>
  /\ UNCHANGED modelVars

\* A join that reports the latest rejection instead of the first.
RejectAllLatest(p, r, i) == <<"rejected", ErrorOf(i)>>

\* Promise.all rejects with the first rejection it sees.
RejectAll(p, r, i) ==
  IF p = "pending" THEN <<"rejected", ErrorOf(i)>> ELSE <<p, r>>

\* A write rejects.
RejectWrite(i) ==
  /\ pc = "awaiting"
  /\ i \in DOMAIN calls
  /\ status[i] = "pending"
  /\ status' = [status EXCEPT ![i] = "rejected"]
  /\ promise' = RejectAll(promise, reason, i)[1]
  /\ reason' = RejectAll(promise, reason, i)[2]
  /\ UNCHANGED <<pc, options, thrown, doc, node, propMap, edgeMap, calls,
                 responses, result>>
  /\ UNCHANGED modelVars

\* A reduce that keys each entry by the edge type itself, without the `@`.
RECURSIVE ReducePlainKey(_, _)
ReducePlainKey(em, acc) ==
  IF em = <<>> THEN acc
  ELSE ReducePlainKey(Tail(em),
                      ObjectAssign(acc, [k \in {Head(em).type} |-> Head(em).data]))

\* edgeMap.reduce((acc, edge) => Object.assign({}, acc, {[`@${edge.type}`]: edge.data}), {})
RECURSIVE Reduce(_, _)
Reduce(em, acc) ==
  IF em = <<>> THEN acc
  ELSE Reduce(Tail(em),
              ObjectAssign(acc, [k \in {AtKey(Head(em).type)} |-> Head(em).data]))

\* Object.assign({id: node}, doc, edgeMap.reduce(...))
Merged(n, d, em) ==
  ObjectAssign(ObjectAssign([k \in {"id"} |-> n], d), Reduce(em, EmptyObject))

AllFulfilled == \A i \in DOMAIN status : status[i] = "fulfilled"

\* Promise.all(promises).then(result => ...)
ResolveAll ==
  /\ pc = "awaiting"
  /\ promise = "pending"
  /\ AllFulfilled
  /\ promise' = "fulfilled"
  /\ result' = Merged(node, doc, edgeMap)
  /\ UNCHANGED <<pc, options, thrown, doc, node, propMap, edgeMap, calls,
                 status, responses, reason>>
  /\ UNCHANGED modelVars

(* ---------------------------------------------------------------------- *)
(* The Model handle: values                                                *)
(* ---------------------------------------------------------------------- *)

\* Largest maxGSIK a handle is configured with or a resolution query returns.
MaxShards == 1

\* Operations started on one handle in one behaviour.
MaxOperations == 2

\* Node ids of handles, targets and set(); cuid() yields the generated ones.
NodeIds == {"node1", "node2"}
Cuid(n) == IF n = 1 THEN "cuid1" ELSE IF n = 2 THEN "cuid2" ELSE "cuid3"

\* Data values handed to create/add, and the cached data of a handle.
DataValues == {"example", "Something"}

\* JSON.stringify of a string value.
Stringify(v) ==
  CASE v = "example" -> "\"example\""
    [] v = "Something" -> "\"Something\""
    [] v = "1" -> "\"1\""

\* A stable hash of the node id.
Hash(n) ==
  CASE n = "node1" -> 4
    [] n = "node2" -> 7
    [] n = "cuid1" -> 9
    [] n = "cuid2" -> 12
    [] n = "cuid3" -> 14

\* shard(nodeId, maxGSIK): in 0..maxGSIK, always 0 when maxGSIK = 0.
Shard(n, max) == Hash(n) % (max + 1)

\* GSIK = Node + "#" + shard(Node, maxGSIK)
Gsik(n, max) == <<n, "#", Shard(n, max)>>

Item(n, type, data, target, max, stored) ==
  [Node |-> n, Type |-> type, Data |-> data, Target |-> target,
   GSIK |-> Gsik(n, max), MaxGSIK |-> stored]

Request(kind, projection, items) ==
  [kind |-> kind, projection |-> projection, items |-> items]

\* The handles the factory builds: node id and maxGSIK optional, cached
\* data, properties and edges optional.
Handles ==
  {[tenant |-> "tenant1", node |-> n, type |-> "Test", maxGSIK |-> m,
    data |-> c.data, properties |-> c.properties, edges |-> c.edges] :
     n \in NodeIds \cup {undefined},
     m \in {undefinedNumber} \cup 0..MaxShards,
     c \in {[data |-> undefined, properties |-> EmptyObject, edges |-> EmptyObject],
            [data |-> "example", properties |-> [k \in {"One"} |-> "1"],
             edges |-> [k \in {"Edge"} |-> "nodeB"]]}}

\* Targets of connect(): none, a raw node id, a handle with or without
\* cached data; the target is another node than the source.
Targets ==
  {[kind |-> "none", node |-> undefined, data |-> undefined],
   [kind |-> "id", node |-> "nodeB", data |-> undefined],
   [kind |-> "handle", node |-> "nodeB", data |-> undefined],
   [kind |-> "handle", node |-> "nodeB", data |-> "Something"]}

NoTarget == [kind |-> "none", node |-> undefined, data |-> undefined]

\* Property lists handed to create().
PropertyLists ==
  {<<>>, <<[type |-> "One", data |-> "1"]>>,
   <<[type |-> "One", data |-> "1"], [type |-> "Two", data |-> "1"]>>}

NoArgs ==
  [node |-> undefined, type |-> undefined, data |-> undefined,
   properties |-> <<>>, target |-> NoTarget]

Idle == opc = "idle"

NoAnswers == [maxGSIK |-> undefinedNumber, data |-> undefined]

\* A new operation starts with nothing issued and nothing recorded.
Begin(name, a) ==
  /\ Idle
  /\ started < MaxOperations
  /\ started' = started + 1
  /\ opName' = name
  /\ args' = a
  /\ written' = {}
  /\ answers' = NoAnswers

Throw(message) ==
  /\ opResult' = "threw"
  /\ opError' = message
  /\ opc' = "idle"
  /\ issued' = <<>>
  /\ trace' = <<>>
  /\ history' = <<>>

\* The first request of an operation is issued.
IssueFirst(req, at) ==
  /\ opResult' = "none"
  /\ opError' = undefined
  /\ issued' = <<req>>
  /\ trace' = <<[event |-> "issue", request |-> 1]>>
  /\ history' = <<>>
  /\ opc' = at

\* The request in flight completes and the next one is issued.
IssueNext(req, at) ==
  /\ issued' = Append(issued, req)
  /\ trace' = trace \o <<[event |-> "complete", request |-> Len(issued)],
                         [event |-> "issue", request |-> Len(issued) + 1]>>
  /\ opc' = at

\* The request in flight completes and the operation fulfils.
Finish ==
  /\ trace' = Append(trace, [event |-> "complete", request |-> Len(issued)])
  /\ opResult' = "fulfilled"
  /\ opc' = "idle"

\* The request in flight fails and the operation rejects.
Fail(message) ==
  /\ trace' = Append(trace, [event |-> "complete", request |-> Len(issued)])
  /\ opResult' = "rejected"
  /\ opError' = message
  /\ opc' = "idle"

(* ---------------------------------------------------------------------- *)
(* set(newNodeId)                                                          *)
(* ---------------------------------------------------------------------- *)

\* A set() that keeps the cached properties and edges.
RebindKeepingCache(h, n) == [h EXCEPT !.node = n, !.data = undefined]

Rebind(h, n) ==
  [h EXCEPT !.node = n, !.data = undefined, !.properties = EmptyObject,
            !.edges = EmptyObject]

Set(n) ==
  /\ Idle
  /\ Len(setCalls) < MaxOperations
  /\ handle' = Rebind(handle, n)
  /\ setCalls' = Append(setCalls, [before |-> handle, node |-> n])
  /\ UNCHANGED <<opName, opc, args, issued, trace, written, history,
                 opResult, opError, answers, started>>
  /\ UNCHANGED updateVars

(* ---------------------------------------------------------------------- *)
(* create({data, properties})                                              *)
(* ---------------------------------------------------------------------- *)

RootItem(n, h, data) ==
  Item(n, h.type, Stringify(data), n, h.maxGSIK, h.maxGSIK)

PropertyItem(n, h, type, data) ==
  Item(n, type, Stringify(data), undefined, h.maxGSIK, undefinedNumber)

PropertyItems(n, h, props) ==
  [i \in DOMAIN props |-> PropertyItem(n, h, props[i].type, props[i].data)]

CreateCall(data, props) ==
  /\ Begin("create",
           [NoArgs EXCEPT !.data = data, !.properties = props,
              !.node = IF handle.node = undefined THEN Cuid(started + 1)
                       ELSE handle.node])
  /\ IF data = undefined THEN Throw("Data is undefined")
     ELSE IF handle.maxGSIK = undefinedNumber THEN Throw("Max GSIK is undefined")
     ELSE IssueFirst(
            Request("put", undefined,
                    <<RootItem(IF handle.node = undefined THEN Cuid(started + 1)
                               ELSE handle.node, handle, data)>>),
            "createRoot")
  /\ UNCHANGED <<handle, setCalls>>
  /\ UNCHANGED updateVars

\* A create that issues the batched property put along with the root put.
RootAndBatchTogether ==
  /\ opc = "createRoot"
  /\ args.properties # <<>>
  /\ written' = written \cup {issued[1].items[1]}
       \cup {PropertyItems(args.node, handle, args.properties)[i] :
               i \in DOMAIN args.properties}
  /\ history' = <<issued[1],
                  Request("batchWrite", undefined,
                          PropertyItems(args.node, handle, args.properties))>>
  /\ issued' = history'
  /\ trace' = trace \o <<[event |-> "issue", request |-> 2],
                         [event |-> "complete", request |-> 2],
                         [event |-> "complete", request |-> 1]>>
  /\ opResult' = "fulfilled"
  /\ opc' = "idle"
  /\ UNCHANGED <<handle, opName, args, opError, started, setCalls>>
  /\ UNCHANGED updateVars
  /\ UNCHANGED answers

\* The root put completes: the batched property put is issued, if any.
RootPutDone ==
  /\ opc = "createRoot"
  /\ written' = written \cup {issued[1].items[1]}
  /\ history' = Append(history, issued[1])
  /\ IF args.properties = <<>>
     THEN /\ Finish
          /\ UNCHANGED issued
     ELSE /\ IssueNext(Request("batchWrite", undefined,
                               PropertyItems(args.node, handle, args.properties)),
                       "createBatch")
          /\ UNCHANGED opResult
  /\ UNCHANGED <<handle, opName, args, opError, started, setCalls>>
  /\ UNCHANGED updateVars
  /\ UNCHANGED answers

\* The batched property put completes.
BatchPutDone ==
  /\ opc = "createBatch"
  /\ written' = written \cup {issued[2].items[i] : i \in DOMAIN issued[2].items}
  /\ history' = Append(history, issued[2])
  /\ Finish
  /\ UNCHANGED <<handle, opName, args, issued, opError, started, setCalls>>
  /\ UNCHANGED updateVars
  /\ UNCHANGED answers

(* ---------------------------------------------------------------------- *)
(* Resolution of maxGSIK, shared by add() and connect()                    *)
(* ---------------------------------------------------------------------- *)

MaxGSIKQuery == Request("query", "#Node, #Type, #Data, #GSIK, #MaxGSIK", <<>>)

TargetQuery == Request("query", "#Data", <<>>)

\* An edge item whose GSIK ignores maxGSIK.
EdgeItemUnsharded(h, max, type, target, data) ==
  Item(h.node, type, data, target, 0, undefinedNumber)

EdgeItem(h, max, type, target, data) ==
  Item(h.node, type, data, target, max, undefinedNumber)

NeedsTargetQuery(target) == target.data = undefined

\* The request that follows once maxGSIK is known.
AfterMaxGSIK(name, h, max, a) ==
  IF name = "add"
  THEN <<Request("put", undefined,
                 <<PropertyItem(h.node, [h EXCEPT !.maxGSIK = max], a.type, a.data)>>),
         "addPut">>
  ELSE IF NeedsTargetQuery(a.target)
  THEN <<TargetQuery, "connectTarget">>
  ELSE <<Request("put", undefined,
                 <<EdgeItem(h, max, a.type, a.target.node, Stringify(a.target.data))>>),
         "connectPut">>

\* Validation passed: resolve maxGSIK first when the handle has none.
Start(name, a) ==
  IF handle.maxGSIK = undefinedNumber
  THEN IssueFirst(MaxGSIKQuery, "resolveMaxGSIK")
  ELSE IssueFirst(AfterMaxGSIK(name, handle, handle.maxGSIK, a)[1],
                  AfterMaxGSIK(name, handle, handle.maxGSIK, a)[2])

\* The resolution query returns the root item's MaxGSIK.
MaxGSIKFound(max) ==
  /\ opc = "resolveMaxGSIK"
  /\ handle' = [handle EXCEPT !.maxGSIK = max]
  /\ answers' = [answers EXCEPT !.maxGSIK = max]
  /\ history' = Append(history, issued[1])
  /\ IssueNext(AfterMaxGSIK(opName, handle, max, args)[1],
               AfterMaxGSIK(opName, handle, max, args)[2])
  /\ UNCHANGED <<opName, args, written, opResult, opError, started, setCalls>>
  /\ UNCHANGED updateVars

\* The resolution query finds no root item.
MaxGSIKMissing ==
  /\ opc = "resolveMaxGSIK"
  /\ Fail("Max GSIK is undefined")
  /\ UNCHANGED <<handle, opName, args, issued, written, history, started,
                 setCalls>>
  /\ UNCHANGED updateVars
  /\ UNCHANGED answers

(* ---------------------------------------------------------------------- *)
(* add({type, data})                                                       *)
(* ---------------------------------------------------------------------- *)

AddCall(type, data) ==
  /\ Begin("add", [NoArgs EXCEPT !.type = type, !.data = data, !.node = handle.node])
  /\ IF handle.node = undefined THEN Throw("Node is undefined")
     ELSE IF type = undefined THEN Throw("Type is undefined")
     ELSE IF data = undefined THEN Throw("Data is undefined")
     ELSE Start("add", [NoArgs EXCEPT !.type = type, !.data = data])
  /\ UNCHANGED <<handle, setCalls>>
  /\ UNCHANGED updateVars

(* ---------------------------------------------------------------------- *)
(* connect({target, type})                                                 *)
(* ---------------------------------------------------------------------- *)

ConnectCall(target, type) ==
  /\ Begin("connect",
           [NoArgs EXCEPT !.type = type, !.target = target, !.node = handle.node])
  /\ IF handle.node = undefined THEN Throw("Node is undefined")
     ELSE IF target.kind = "none" THEN Throw("Target is undefined")
     ELSE IF type = undefined THEN Throw("Type is undefined")
     ELSE Start("connect", [NoArgs EXCEPT !.type = type, !.target = target])
  /\ UNCHANGED <<handle, setCalls>>
  /\ UNCHANGED updateVars

\* A connect that records the target query in its history as well.
RecordTargetQueryToo(h, q) == Append(h, q)

\* The target query is not part of the history connect() returns.
RecordTargetQuery(h, q) == h

\* The target query returns the target's root Data.
TargetFound(data) ==
  /\ opc = "connectTarget"
  /\ history' = RecordTargetQuery(history, issued[Len(issued)])
  /\ answers' = [answers EXCEPT !.data = data]
  /\ IssueNext(Request("put", undefined,
                       <<EdgeItem(handle, handle.maxGSIK, args.type,
                                  args.target.node, data)>>),
               "connectPut")
  /\ UNCHANGED <<handle, opName, args, written, opResult, opError, started,
                 setCalls>>
  /\ UNCHANGED updateVars

\* The target query finds no root item.
TargetMissing ==
  /\ opc = "connectTarget"
  /\ Fail("Target is undefined")
  /\ UNCHANGED <<handle, opName, args, issued, written, history, started,
                 setCalls>>
  /\ UNCHANGED updateVars
  /\ UNCHANGED answers

\* The put of add() or connect() completes.
PutDone ==
  /\ opc \in {"addPut", "connectPut"}
  /\ written' = written \cup {issued[Len(issued)].items[1]}
  /\ history' = Append(history, issued[Len(issued)])
  /\ Finish
  /\ UNCHANGED <<handle, opName, args, issued, opError, started, setCalls>>
  /\ UNCHANGED updateVars
  /\ UNCHANGED answers

\* The document client rejects the request in flight.
StoreRejects ==
  /\ opc # "idle"
  /\ Fail("StoreError")
  /\ UNCHANGED <<handle, opName, args, issued, written, history, started,
                 setCalls>>
  /\ UNCHANGED updateVars
  /\ UNCHANGED answers

(* ---------------------------------------------------------------------- *)
(* Specifications                                                          *)
(* ---------------------------------------------------------------------- *)

UpdateInit ==
  /\ pc = "unconfigured"
  /\ options = NoOptions
  /\ thrown = undefined
  /\ doc = EmptyObject
  /\ node = undefined
  /\ propMap = <<>>
  /\ edgeMap = <<>>
  /\ calls = <<>>
  /\ status = <<>>
  /\ responses = <<>>
  /\ promise = "none"
  /\ result = EmptyObject
  /\ reason = NoError

ModelIdle ==
  /\ opName = "none"
  /\ opc = "idle"
  /\ args = NoArgs
  /\ issued = <<>>
  /\ trace = <<>>
  /\ written = {}
  /\ history = <<>>
  /\ opResult = "none"
  /\ opError = undefined
  /\ answers = NoAnswers
  /\ started = 0
  /\ setCalls = <<>>

\* Document Update, next to one untouched handle.
Init ==
  /\ UpdateInit
  /\ handle \in {h \in Handles : h.node = undefined /\ h.maxGSIK = 0
                                 /\ h.data = undefined}
  /\ ModelIdle

Next ==
  \/ \E o \in AllOptions : Configure(o)
  \/ \E d \in Documents : Update(d)
  \/ \E i \in 1..MaxFields : FulfilProperty(i)
  \/ \E i \in 1..MaxFields, data \in TargetData : FulfilEdge(i, data)
  \/ \E i \in 1..MaxFields : RejectWrite(i)
  \/ ResolveAll

Spec == Init /\ [][Next]_vars

\* The operations of one handle built by the factory.
ModelInit ==
  /\ UpdateInit
  /\ handle \in Handles
  /\ ModelIdle

ModelNext ==
  \/ \E n \in NodeIds : Set(n)
  \/ \E data \in {undefined, "example"}, props \in PropertyLists :
       CreateCall(data, props)
  \/ RootPutDone
  \/ BatchPutDone
  \/ \E type \in {undefined, "One"}, data \in {undefined, "example"} :
       AddCall(type, data)
  \/ \E target \in Targets, type \in {undefined, "Connection"} :
       ConnectCall(target, type)
  \/ \E max \in 0..MaxShards : MaxGSIKFound(max)
  \/ MaxGSIKMissing
  \/ \E data \in {Stringify(v) : v \in DataValues} : TargetFound(data)
  \/ TargetMissing
  \/ PutDone
  \/ StoreRejects

ModelSpec == ModelInit /\ [][ModelNext]_vars

(* ---------------------------------------------------------------------- *)
(* Properties of Document Update                                           *)
(* ---------------------------------------------------------------------- *)

Range(list) == {list[i] : i \in DOMAIN list}

Occurrences(list, n) == Cardinality({i \in DOMAIN list : list[i] = n})

Present(n) == Get(doc, n) # undefined

CallsOf(op, n) == {i \in DOMAIN calls : calls[i].op = op /\ calls[i].type = n}

\* Every write carries the document's node id, the configured tenant and
\* maxGSIK, a recognised name, and that name's value in the document.
WritesCarryDocument ==
  \A i \in DOMAIN calls :
    /\ calls[i].node = Get(doc, "id")
    /\ calls[i].tenant = options.tenant
    /\ calls[i].maxGSIK = options.maxGSIK
    /\ calls[i].op = "createProperty" =>
         /\ calls[i].type \in Range(options.properties)
         /\ calls[i].data = Get(doc, calls[i].type)
    /\ calls[i].op = "createEdge" =>
         /\ calls[i].type \in Range(options.edges)
         /\ calls[i].target = Get(doc, calls[i].type)

\* C1 as stated: one call of Document Update issues exactly one
\* createProperty for each name of the property list present in the
\* document, exactly one createEdge for each name of the edge list present
\* in the document, no write for any other name, and every write carries the
\* document's node id and the configured tenant and maxGSIK.
C1_OneWritePerName ==
  pc = "awaiting" =>
    /\ \A n \in FieldNames :
         /\ Cardinality(CallsOf("createProperty", n)) =
              IF n \in Range(options.properties) /\ Present(n) THEN 1 ELSE 0
         /\ Cardinality(CallsOf("createEdge", n)) =
              IF n \in Range(options.edges) /\ Present(n) THEN 1 ELSE 0
    /\ WritesCarryDocument

\* C1 amended: one call of Document Update issues one createProperty for
\* each occurrence of a present name in the property list and one createEdge
\* for each occurrence of a present name in the edge list (so exactly one per
\* name when the list does not repeat the name), no write for an absent or
\* unrecognised name, and every write carries the document's node id and the
\* configured tenant and maxGSIK.
C1_OneWritePerOccurrence ==
  pc = "awaiting" =>
    /\ \A n \in FieldNames :
         /\ Cardinality(CallsOf("createProperty", n)) =
              IF Present(n) THEN Occurrences(options.properties, n) ELSE 0
         /\ Cardinality(CallsOf("createEdge", n)) =
              IF Present(n) THEN Occurrences(options.edges, n) ELSE 0
    /\ WritesCarryDocument

\* An update that wrote a present property, skipped an absent recognised
\* edge, and was given a key that is in neither list.
C1_Witness ==
  /\ pc = "awaiting"
  /\ \E n \in Range(options.properties) : Present(n)
  /\ \E n \in Range(options.edges) : ~Present(n)
  /\ Present("Name")
  /\ Len(calls) = 1

\* The last createEdge call issued for edge name e.
LastEdgeCall(e) ==
  CHOOSE i \in CallsOf("createEdge", e) : \A j \in CallsOf("createEdge", e) : j <= i

EdgesWritten == {e \in FieldNames : CallsOf("createEdge", e) # {}}

\* C2: when every write succeeds, the result is the input document plus one
\* `@<EdgeType>` entry per edge name written, each holding the Data returned
\* by that edge's own createEdge write (the last one issued for the name when
\* the edge list repeats it); every key of the input keeps its value and no
\* `@` entry exists for an edge that was not written.
C2_ResultIsDocumentPlusEdgeData ==
  promise = "fulfilled" =>
    /\ DOMAIN result = DOMAIN doc \cup {AtKey(e) : e \in EdgesWritten}
    /\ \A k \in DOMAIN doc : result[k] = doc[k]
    /\ \A e \in EdgesWritten :
         /\ result[AtKey(e)] = responses[LastEdgeCall(e)]
         /\ result[AtKey(e)] \in TargetData
    /\ \A e \in FieldNames \ EdgesWritten : AtKey(e) \notin DOMAIN result

\* A fulfilled update that wrote two different edges whose responses differ,
\* next to a document key that is no edge.
C2_Witness ==
  /\ promise = "fulfilled"
  /\ Cardinality(EdgesWritten) = 2
  /\ result["@Genre"] # result["@Author"]
  /\ Present("Name")

\* C3 as stated: the update fails with "Node is undefined" exactly when the
\* document lacks the field named by the configured key, and otherwise every
\* write uses the value of that field as node id.
C3_NodeFromConfiguredKey ==
  pc \in {"awaiting", "callThrew"} =>
    /\ (pc = "callThrew") <=> (Get(doc, options.key) = undefined)
    /\ pc = "awaiting" =>
         /\ node = Get(doc, options.key)
         /\ \A i \in DOMAIN calls : calls[i].node = Get(doc, options.key)

\* C3 amended: the update fails with "Node is undefined" exactly when the
\* document has no `id`, whatever key is configured, and otherwise every
\* write uses the document's `id` as node id.
C3_NodeFromId ==
  pc \in {"awaiting", "callThrew"} =>
    /\ (pc = "callThrew") <=> (Get(doc, "id") = undefined)
    /\ pc = "callThrew" => thrown = "Node is undefined"
    /\ pc = "awaiting" =>
         /\ node = doc["id"]
         /\ \A i \in DOMAIN calls : calls[i].node = doc["id"]

\* An update configured with key "Name" that wrote to the node named by `id`
\* for a document without a "Name".
C3_Witness ==
  /\ pc = "awaiting"
  /\ options.key = "Name"
  /\ ~Present("Name")
  /\ calls # <<>>

RequiredMissing(o) ==
  \/ o.db = undefined
  \/ o.type = undefined
  \/ o.key = undefined
  \/ o.maxGSIK = undefinedNumber

\* C4: a configuration without db, type, key or maxGSIK throws the matching
\* error and returns no update function, a document without node id makes
\* the update throw "Node is undefined", and in each case no createProperty
\* and no createEdge has been issued.
C4_ValidationBeforeAnyWrite ==
  /\ pc # "unconfigured" =>
       /\ RequiredMissing(options) <=> (pc = "configThrew")
       /\ pc = "configThrew" =>
            /\ thrown \in {"DB driver is undefined", "Type is undefined",
                          "Key is undefined", "Max GSIK is undefined"}
            /\ thrown = "DB driver is undefined" => options.db = undefined
            /\ thrown = "Type is undefined" => options.type = undefined
            /\ thrown = "Key is undefined" => options.key = undefined
            /\ thrown = "Max GSIK is undefined" =>
                 options.maxGSIK = undefinedNumber
  /\ pc = "callThrew" => thrown = "Node is undefined" /\ ~Present("id")
  /\ pc \in {"awaiting"} => thrown = undefined /\ Present("id")
  /\ pc \in {"unconfigured", "configThrew", "callThrew"} =>
       /\ calls = <<>>
       /\ promise = "none"

\* An update that threw for a document whose recognised property is present
\* but whose node id is missing.
C4_Witness ==
  /\ pc = "callThrew"
  /\ \E n \in Range(options.properties) : Present(n)
  /\ \E n \in Range(options.edges) : Present(n)

\* Number of writes the document calls for.
WritesDue ==
  Cardinality({i \in DOMAIN options.properties : Present(options.properties[i])})
  + Cardinality({i \in DOMAIN options.edges : Present(options.edges[i])})

C5_Rejected ==
  pc = "awaiting" =>
    /\ (promise = "rejected") <=> (\E i \in DOMAIN status : status[i] = "rejected")
    /\ promise = "rejected" =>
         \E i \in DOMAIN status : status[i] = "rejected" /\ reason = ErrorOf(i)
    /\ Len(calls) = WritesDue

C5_Step ==
  /\ \A i \in DOMAIN status :
       (i \in DOMAIN status' /\ status[i] = "pending" /\ status'[i] = "rejected"
        /\ promise = "pending") => (promise' = "rejected" /\ reason' = ErrorOf(i))
  /\ promise = "rejected" => (promise' = "rejected" /\ reason' = reason)
  /\ pc = "awaiting" => calls' = calls

\* C5: when a write rejects, the update rejects with that write's own error,
\* unchanged (the first rejection when several writes reject); the writes
\* issued are never added to afterwards (no retry, no compensating write),
\* and every write for a present field has been issued all the same.
C5_RejectionPropagates == []C5_Rejected /\ [][C5_Step]_vars

\* A rejected update one of whose writes was nevertheless carried out.
C5_Witness ==
  /\ promise = "rejected"
  /\ \E i, j \in DOMAIN status : status[i] = "rejected" /\ status[j] = "fulfilled"

\* The result the responses determine, whatever order they arrived in.
ExpectedResult ==
  [k \in DOMAIN doc \cup {AtKey(e) : e \in EdgesWritten} |->
     IF \E e \in EdgesWritten : AtKey(e) = k
     THEN responses[LastEdgeCall(CHOOSE e \in EdgesWritten : AtKey(e) = k)]
     ELSE doc[k]]

\* C10: every write is issued before any of them is waited for, the result
\* is delivered only once every issued write has fulfilled, and the result
\* depends on the responses alone, not on the order the writes completed in.
C10_IssuedTogetherJoinedTogether ==
  /\ pc = "awaiting" =>
       /\ Len(calls) = WritesDue
       /\ DOMAIN status = DOMAIN calls
  /\ promise = "pending" => result = EmptyObject
  /\ promise = "fulfilled" =>
       /\ AllFulfilled
       /\ result = ExpectedResult

\* A fulfilled update whose edge list repeats a name and whose two writes of
\* that edge returned different Data.
C10_Witness ==
  /\ promise = "fulfilled"
  /\ \E i, j \in DOMAIN calls :
       /\ i < j
       /\ calls[i].op = "createEdge"
       /\ calls[j].op = "createEdge"
       /\ calls[i].type = calls[j].type
       /\ responses[i] # responses[j]

(* ---------------------------------------------------------------------- *)
(* Properties of the Model handle                                          *)
(* ---------------------------------------------------------------------- *)

Issue(i) == [event |-> "issue", request |-> i]
Complete(i) == [event |-> "complete", request |-> i]

\* Request i was complete when request j was issued.
CompletedBeforeIssue(i, j) ==
  \E a, b \in DOMAIN trace : a < b /\ trace[a] = Complete(i) /\ trace[b] = Issue(j)

IsRoot(item) == item.Target = item.Node
IsProperty(item) == item.Target = undefined

\* C6: create() issues the root put first and the one batched property put
\* only once the root put has completed, so no property item of the node is
\* written while its root item is not; the history is the root put, then the
\* batched put; without properties exactly one put is issued and the history
\* has no second entry.
C6_RootBeforeProperties ==
  opName = "create" =>
    /\ Len(issued) <= 2
    /\ Len(issued) >= 1 =>
         /\ issued[1].kind = "put"
         /\ IsRoot(issued[1].items[1])
         /\ issued[1].items[1].Node = args.node
    /\ Len(issued) = 2 =>
         /\ args.properties # <<>>
         /\ issued[2].kind = "batchWrite"
         /\ Len(issued[2].items) = Len(args.properties)
         /\ \A i \in DOMAIN issued[2].items :
              /\ IsProperty(issued[2].items[i])
              /\ issued[2].items[i].Node = args.node
         /\ CompletedBeforeIssue(1, 2)
    /\ \A item \in written :
         IsProperty(item) => \E root \in written : IsRoot(root) /\ root.Node = item.Node
    /\ opResult = "fulfilled" =>
         /\ Len(issued) = (IF args.properties = <<>> THEN 1 ELSE 2)
         /\ history = issued

\* A fulfilled create with properties.
C6_Witness ==
  /\ opName = "create"
  /\ opResult = "fulfilled"
  /\ Len(history) = 2
  /\ Cardinality(written) = 3

IsEdgePut(r) ==
  r.kind = "put" /\ ~IsRoot(r.items[1]) /\ ~IsProperty(r.items[1])

\* C7: when connect() finds maxGSIK unresolved, the resolution query is issued
\* and completed before the edge put is issued, the edge put's GSIK is
\* computed from the source node and the resolved maxGSIK, and once connect
\* has completed the handle's maxGSIK is the resolved value; the target's
\* root Data, too, is resolved before the edge put is issued.
C7_ResolutionBeforeEdgePut ==
  opName = "connect" =>
    /\ \A i \in DOMAIN issued :
         IsEdgePut(issued[i]) =>
           /\ i = Len(issued)
           /\ \A j \in 1..(i - 1) :
                /\ issued[j].kind = "query"
                /\ CompletedBeforeIssue(j, i)
           /\ issued[i].items[1].Node = args.node
           /\ issued[i].items[1].Target = args.target.node
           /\ issued[i].items[1].Data =
                (IF args.target.data = undefined THEN answers.data
                 ELSE Stringify(args.target.data))
           /\ issued[i].items[1].Data # undefined
           /\ issued[1] = MaxGSIKQuery =>
                issued[i].items[1].GSIK = Gsik(args.node, answers.maxGSIK)
           /\ issued[1] # MaxGSIKQuery =>
                issued[i].items[1].GSIK = Gsik(args.node, handle.maxGSIK)
           /\ args.target.data = undefined =>
                \E j \in 1..(i - 1) : issued[j] = TargetQuery
    /\ (opResult = "fulfilled" /\ issued[1] = MaxGSIKQuery) =>
         /\ handle.maxGSIK = answers.maxGSIK
         /\ answers.maxGSIK # undefinedNumber
    /\ opResult = "fulfilled" => IsEdgePut(issued[Len(issued)])

\* A fulfilled connect that resolved maxGSIK to a value that shards the
\* source node away from shard 0, and resolved the target's Data.
C7_Witness ==
  /\ opName = "connect"
  /\ opResult = "fulfilled"
  /\ issued[1] = MaxGSIKQuery
  /\ Len(issued) = 3
  /\ Shard(args.node, handle.maxGSIK) # 0

\* C8 as stated: the history a write operation returns lists every request
\* the operation issued, in issue order; for connect() that is each
\* resolution query issued (maxGSIK, target Data) and then the edge put.
C8_HistoryIsEveryRequest ==
  opResult = "fulfilled" =>
    /\ history = issued
    /\ opName = "connect" => IsEdgePut(history[Len(history)])

NotTargetQuery(r) == r # TargetQuery

\* C8 amended: the history a write operation returns lists, in issue order,
\* every request the operation issued except connect()'s target Data query:
\* the maxGSIK resolution query when one was issued, then the puts, the edge
\* put of connect() being the last entry.
C8_HistoryOmitsTargetQuery ==
  opResult = "fulfilled" =>
    /\ history = SelectSeq(issued, NotTargetQuery)
    /\ opName = "connect" =>
         /\ IsEdgePut(history[Len(history)])
         /\ Len(history) = (IF issued[1] = MaxGSIKQuery THEN 2 ELSE 1)
    /\ opName = "add" => Len(history) = (IF issued[1] = MaxGSIKQuery THEN 2 ELSE 1)

\* A fulfilled connect that issued three requests and returned two.
C8_Witness ==
  /\ opName = "connect"
  /\ opResult = "fulfilled"
  /\ Len(issued) = 3
  /\ Len(history) = 2
  /\ history[2] = issued[3]

LastSet == setCalls'[Len(setCalls')]

C9_SetStep ==
  setCalls' # setCalls =>
    /\ handle'.node = LastSet.node
    /\ handle'.data = undefined
    /\ handle'.properties = EmptyObject
    /\ handle'.edges = EmptyObject
    /\ handle'.tenant = handle.tenant
    /\ handle'.type = handle.type
    /\ handle'.maxGSIK = handle.maxGSIK
    /\ LastSet.before = handle

\* C9: set(newNodeId) rebinds the handle to newNodeId, clears data,
\* properties and edges, and leaves tenant, type and maxGSIK as they were,
\* whatever operations ran on the handle before.
C9_SetRebindsAndClears == [][C9_SetStep]_vars

\* A handle with cached data, properties and edges, whose maxGSIK an earlier
\* connect resolved, rebound to another node.
C9_Witness ==
  /\ setCalls # <<>>
  /\ setCalls[Len(setCalls)].before.data # undefined
  /\ setCalls[Len(setCalls)].before.properties # EmptyObject
  /\ setCalls[Len(setCalls)].before.node # setCalls[Len(setCalls)].node
  /\ opName = "connect"
  /\ opResult = "fulfilled"
  /\ issued[1] = MaxGSIKQuery
  /\ handle.maxGSIK = answers.maxGSIK
  /\ handle.node = setCalls[Len(setCalls)].node
  /\ handle.node # args.node

(* ---------------------------------------------------------------------- *)
(* Item keys of the writes of one Document Update                          *)
(* ---------------------------------------------------------------------- *)

\* The (Node, Type) item key write i addresses.
ItemKey(i) == <<calls[i].node, calls[i].type>>

\* How often a name is recognised, as a property and as an edge together.
TimesRecognised(n) ==
  Occurrences(options.properties, n) + Occurrences(options.edges, n)

\* C11 as stated: no two writes issued by one Document Update address the
\* same (node, type) item key, also when a field name is in both the
\* property list and the edge list or more than once in a list.
C11_DisjointItemKeys ==
  pc = "awaiting" =>
    \A i, j \in DOMAIN calls : i # j => ItemKey(i) # ItemKey(j)

\* C11 amended: the writes of one Document Update address the key
\* (document's id, name) once for every time a present name is recognised,
\* so two writes address the same item key exactly when their name is in
\* both lists or more than once in a list, and writes of different names or
\* of a name recognised once touch distinct keys.
C11_KeysCollideOnRepeatedNames ==
  pc = "awaiting" =>
    /\ \A n \in FieldNames :
         Cardinality({i \in DOMAIN calls : ItemKey(i) = <<doc["id"], n>>}) =
           IF Present(n) THEN TimesRecognised(n) ELSE 0
    /\ \A i, j \in DOMAIN calls :
         (i # j /\ ItemKey(i) = ItemKey(j)) =>
           /\ calls[i].type = calls[j].type
           /\ TimesRecognised(calls[i].type) >= 2
    /\ \A i \in DOMAIN calls : ItemKey(i)[2] \in FieldNames

\* An update whose configuration recognises one name both as a property and
\* as an edge, with a createProperty and a createEdge on the same item key.
C11_Witness ==
  /\ pc = "awaiting"
  /\ \E i, j \in DOMAIN calls :
       /\ calls[i].op = "createProperty"
       /\ calls[j].op = "createEdge"
       /\ ItemKey(i) = ItemKey(j)

====
